---- MODULE Spec2Model ----
(***************************************************************************)
(* Model of maker.py: the window generator make_time_slices and the        *)
(* SunpyMovieMaker (construction and make_movie).                          *)
(*                                                                         *)
(* Times and durations are integers (one unit of time).  A map (frame) is  *)
(* the pair <<j, i>>: the i-th map (0-based) of the caller's j-th MapSet.  *)
(* Objects live in `heap`, a sequence of MapSet records addressed by       *)
(* position, so that copying and aliasing are distinguishable.             *)
(***************************************************************************)
EXTENDS Integers, Sequences, FiniteSets, TLC

\* ---- bounds of the model ----
MaxStart == 1
MaxEnd == 10
MaxStep == 10
MaxExposure == 10
MaxSeries == 2
MaxFrames == 5
MaxCalls == 3

VARIABLES
    \* make_time_slices
    start, end, time_step, exposure,   \* the arguments
    starts, ends, slices,              \* the locals
    appended,                          \* TRUE once line 36 has run
    spc,                               \* position in make_time_slices
    \* SunpyMovieMaker
    input,                             \* the MapSets as the caller built them
    heap,                              \* all MapSet objects, by address
    caller,                            \* addresses of the caller's MapSets
    map_sets,                          \* self.map_sets: addresses held by the maker
    make_axes,                         \* constructor argument
    ims,                               \* ims[j]: the map shown by artist j
    frames,                            \* the frame schedule
    trace,                             \* calls made on collaborators in this make_movie call
    idx,                               \* loop index / next schedule entry
    calls,                             \* number of make_movie calls begun
    err,                               \* exception raised, if any
    mpc                                \* position in the maker's life

svars == <<start, end, time_step, exposure, starts, ends, slices, appended, spc>>
mvars == <<input, heap, caller, map_sets, make_axes, ims, frames, trace, idx, calls, err, mpc>>
vars == <<svars, mvars>>

\* =====================================================================
\* make_time_slices
\* =====================================================================

\* np.arange(a, b, s) for s > 0: a, a+s, ... strictly below b
ARange(a, b, s) ==
    LET n == IF b > a THEN ((b - a) + s - 1) \div s ELSE 0
    IN [i \in 1..n |-> a + (i - 1) * s]

EndsOfCadence(ss, step, exp) ==
    [i \in 1..Len(ss) |-> ss[i] + step]

\* ends = starts + exposure
EndsOf(ss, step, exp) ==
    [i \in 1..Len(ss) |-> ss[i] + exp]

\* list(zip(starts, ends))
Zip(ss, es) ==
    [i \in 1..Len(ss) |-> <<ss[i], es[i]>>]

EndInEnds(e, es) ==
    \E i \in 1..Len(es) : es[i] = e

\* end not in ends
EndNotInEnds(e, es) ==
    ~ \E i \in 1..Len(es) : es[i] = e

\* (starts[-1] + time_step, end)
CorrectionWindow(ss, step, e) ==
    <<ss[Len(ss)] + step, e>>

SliceInit ==
    /\ start \in 0..MaxStart
    /\ end \in 1..MaxEnd
    /\ end > start
    /\ time_step \in 1..MaxStep
    /\ exposure \in 1..MaxExposure
    /\ starts = <<>>
    /\ ends = <<>>
    /\ slices = <<>>
    /\ appended = FALSE
    /\ spc = "arange"
    \* no maker exists
    /\ input = <<>> /\ heap = <<>> /\ caller = <<>> /\ map_sets = <<>>
    /\ make_axes = FALSE /\ ims = <<>> /\ frames = <<>> /\ trace = <<>>
    /\ idx = 0 /\ calls = 0 /\ err = "none" /\ mpc = "idle"

\* line 29
StepStarts ==
    /\ spc = "arange"
    /\ starts' = ARange(start, end - exposure, time_step)
    /\ spc' = "zip"
    /\ UNCHANGED <<start, end, time_step, exposure, ends, slices, appended>>
    /\ UNCHANGED mvars

\* lines 30-31
StepEnds ==
    /\ spc = "zip"
    /\ ends' = EndsOf(starts, time_step, exposure)
    /\ slices' = Zip(starts, ends')
    /\ spc' = "check"
    /\ UNCHANGED <<start, end, time_step, exposure, starts, appended>>
    /\ UNCHANGED mvars

\* lines 35-38; starts[-1] on an empty array raises IndexError
StepCorrect ==
    /\ spc = "check"
    /\ IF EndNotInEnds(end, ends)
       THEN IF starts = <<>>
            THEN spc' = "raised" /\ UNCHANGED <<slices, appended>>
            ELSE /\ slices' = Append(slices, CorrectionWindow(starts, time_step, end))
                 /\ appended' = TRUE
                 /\ spc' = "returned"
       ELSE spc' = "returned" /\ UNCHANGED <<slices, appended>>
    /\ UNCHANGED <<start, end, time_step, exposure, starts, ends>>
    /\ UNCHANGED mvars

SliceNext ==
    \/ StepStarts
    \/ StepEnds
    \/ StepCorrect

\* =====================================================================
\* MapSet and SunpyMovieMaker
\* =====================================================================

\* ax: plt.Axes = None
NoAx == 0

Callbacks == {"None", "lambda"}

\* truth value of a callback
Truthy(f) == f # "None"

MapsOf(j, n) == [i \in 1..n |-> <<j, i - 1>>]

MapSet(j, n, fi, fp) ==
    [maps |-> MapsOf(j, n), init_func |-> fi, plot_func |-> fp, ax |-> NoAx]

KeepFirst(s) == s

\* list.pop(0) leaves the tail
Pop0(s) == Tail(s)

Alias(h, refs) ==
    [heap |-> h, refs |-> refs]

\* copy.deepcopy(map_sets): fresh objects with equal contents
DeepCopy(h, refs) ==
    [heap |-> h \o [i \in 1..Len(refs) |-> h[refs[i]]],
     refs |-> [i \in 1..Len(refs) |-> Len(h) + i]]

Event(op, entry, j, m) ==
    [op |-> op, entry |-> entry, series |-> j, map |-> m]

MovieInit ==
    /\ \E k \in 1..MaxSeries :
       \E n \in [1..k -> 0..MaxFrames] :
       \E fi \in [1..k -> Callbacks] :
       \E fp \in [1..k -> Callbacks] :
          input = [j \in 1..k |-> MapSet(j, n[j], fi[j], fp[j])]
    /\ heap = input
    /\ caller = [j \in 1..Len(input) |-> j]
    /\ map_sets = <<>>
    /\ make_axes \in BOOLEAN
    /\ ims = <<>>
    /\ frames = <<>>
    /\ trace = <<>>
    /\ idx = 0
    /\ calls = 0
    /\ err = "none"
    /\ mpc = "new"
    \* make_time_slices is not running
    /\ start = 0 /\ end = 1 /\ time_step = 1 /\ exposure = 1
    /\ starts = <<>> /\ ends = <<>> /\ slices = <<>>
    /\ appended = FALSE /\ spc = "idle"

\* lines 65-76; map_set.maps[0] raises IndexError on an empty list
Construct ==
    /\ mpc = "new"
    /\ LET c == DeepCopy(heap, caller)
           k == Len(c.refs)
           bad == {i \in 1..k : c.heap[c.refs[i]].maps = <<>>}
           stop == IF make_axes /\ bad # {}
                   THEN CHOOSE i \in bad : \A b \in bad : i <= b
                   ELSE k + 1
           axed == {c.refs[i] : i \in {x \in 1..k : make_axes /\ x < stop}}
           pos(a) == CHOOSE i \in 1..k : c.refs[i] = a
       IN /\ heap' = [a \in 1..Len(c.heap) |->
                        IF a \in axed THEN [c.heap[a] EXCEPT !.ax = pos(a)]
                        ELSE c.heap[a]]
          /\ IF stop <= k
             THEN /\ map_sets' = <<>>
                  /\ err' = "IndexError"
                  /\ mpc' = "raised_new"
             ELSE /\ map_sets' = c.refs
                  /\ err' = "none"
                  /\ mpc' = "ready"
    /\ UNCHANGED <<input, caller, make_axes, ims, frames, trace, idx, calls>>
    /\ UNCHANGED svars

\* entry of make_movie, line 97: ims = []
Call ==
    /\ mpc \in {"ready", "done", "raised"}
    /\ calls < MaxCalls
    /\ calls' = calls + 1
    /\ ims' = <<>>
    /\ frames' = <<>>
    /\ trace' = <<>>
    /\ idx' = 1
    /\ err' = "none"
    /\ mpc' = "init"
    /\ UNCHANGED <<input, heap, caller, map_sets, make_axes>>
    /\ UNCHANGED svars

\* lines 98-103, one iteration; pop(0) on an empty list raises IndexError
InitArtist ==
    /\ mpc = "init"
    /\ idx <= Len(map_sets)
    /\ LET r == map_sets[idx]
           mset == heap[r]
       IN IF mset.maps = <<>>
          THEN /\ err' = "IndexError"
               /\ mpc' = "raised"
               /\ UNCHANGED <<heap, ims, trace, idx>>
          ELSE LET map_ == Head(mset.maps)
               IN /\ heap' = [heap EXCEPT ![r].maps = Pop0(@)]
                  /\ ims' = Append(ims, map_)
                  /\ trace' = trace \o <<Event("plot", 0, idx, map_)>>
                                    \o (IF Truthy(mset.init_func)
                                        THEN <<Event("init_func", 0, idx, map_)>>
                                        ELSE <<>>)
                  /\ idx' = idx + 1
                  /\ UNCHANGED <<err, mpc>>
    /\ UNCHANGED <<input, caller, map_sets, make_axes, frames, calls>>
    /\ UNCHANGED svars

ScheduleShifted(h, refs) ==
    LET num_frames == Len(h[refs[1]].maps) - 1
    IN [i \in 1..(IF num_frames > 0 THEN num_frames ELSE 0) |->
          [j \in 1..Len(refs) |-> h[refs[j]].maps[i + 1]]]

\* lines 106-109, when no index is out of range
Schedule(h, refs) ==
    LET num_frames == Len(h[refs[1]].maps)
    IN [i \in 1..num_frames |-> [j \in 1..Len(refs) |-> h[refs[j]].maps[i]]]

\* lines 106-109; maps[i] beyond a shorter list raises IndexError
SortFrames ==
    /\ mpc = "init"
    /\ idx = Len(map_sets) + 1
    /\ LET num_frames == Len(heap[map_sets[1]].maps)
       IN IF \E j \in 1..Len(map_sets) : Len(heap[map_sets[j]].maps) < num_frames
          THEN /\ err' = "IndexError"
               /\ mpc' = "raised"
               /\ UNCHANGED <<frames, idx>>
          ELSE /\ frames' = Schedule(heap, map_sets)
               /\ idx' = 1
               /\ mpc' = "animate"
               /\ UNCHANGED err
    /\ UNCHANGED <<input, heap, caller, map_sets, make_axes, ims, trace, calls>>
    /\ UNCHANGED svars

\* calls made by update for series j..upto, stopping at series f whose
\* plot_func is not callable (f = upto + 1 when all are callable)
RECURSIVE UpdateEvents(_, _, _, _, _)
UpdateEvents(entry, frame, j, upto, f) ==
    IF j > upto THEN <<>>
    ELSE <<Event("set_array", entry, j, frame[j])>>
         \o (IF j < f THEN <<Event("plot_func", entry, j, frame[j])>> ELSE <<>>)
         \o UpdateEvents(entry, frame, j + 1, upto, f)

\* lines 89-94, one call of update by the animation for schedule entry idx;
\* calling a plot_func that is None raises TypeError
Update ==
    /\ mpc = "animate"
    /\ idx <= Len(frames)
    /\ LET frame == frames[idx]
           k == Len(map_sets)
           none == {j \in 1..k : ~ Truthy(heap[map_sets[j]].plot_func)}
           f == IF none = {} THEN k + 1
                ELSE CHOOSE j \in none : \A b \in none : j <= b
           upto == IF f <= k THEN f ELSE k
       IN /\ ims' = [j \in 1..Len(ims) |-> IF j <= upto THEN frame[j] ELSE ims[j]]
          /\ trace' = trace \o UpdateEvents(idx, frame, 1, upto, f)
          /\ IF f <= k
             THEN /\ err' = "TypeError"
                  /\ mpc' = "raised"
                  /\ UNCHANGED idx
             ELSE /\ idx' = idx + 1
                  /\ UNCHANGED <<err, mpc>>
    /\ UNCHANGED <<input, heap, caller, map_sets, make_axes, frames, calls>>
    /\ UNCHANGED svars

\* lines 119-120: every schedule entry was drawn, the file is written
Save ==
    /\ mpc = "animate"
    /\ idx = Len(frames) + 1
    /\ mpc' = "done"
    /\ UNCHANGED <<input, heap, caller, map_sets, make_axes, ims, frames, trace, idx, calls, err>>
    /\ UNCHANGED svars

MovieNext ==
    \/ Construct
    \/ Call
    \/ InitArtist
    \/ SortFrames
    \/ Update
    \/ Save

\* =====================================================================
\* Specifications
\* =====================================================================

SliceSpec == SliceInit /\ [][SliceNext]_vars

MovieSpec == MovieInit /\ [][MovieNext]_vars

\* =====================================================================
\* Properties of make_time_slices (checked under SliceSpec)
\* =====================================================================

Terminated == spc \in {"returned", "raised"}

\* exposure < end - start
ValidWindow == exposure < end - start

\* (end - start - exposure) is an exact multiple of time_step
Aligned == (end - start - exposure) % time_step = 0

\* C1: for exposure < end - start the call returns a non-empty list whose
\* first window starts at start and whose last window ends at end.
C1_FirstStartLastEnd ==
    (Terminated /\ ValidWindow) =>
        /\ spc = "returned"
        /\ Len(slices) >= 1
        /\ slices[1][1] = start
        /\ slices[Len(slices)][2] = end

C1_Witness ==
    /\ spc = "returned"
    /\ ValidWindow
    /\ ~ Aligned
    /\ time_step > exposure
    /\ Len(slices) >= 3

\* C4: when exposure = end - start the call returns exactly the one window
\* (start, end), appends no correction window and raises nothing.
C4_SingleWindow ==
    (Terminated /\ exposure = end - start) =>
        /\ spc = "returned"
        /\ slices = << <<start, end>> >>
        /\ ~ appended

C8_SteppedWindows ==
    spc = "returned" =>
        \A i \in 1..(Len(slices) - 1) :
            slices[i] = <<start + (i - 1) * time_step,
                          start + (i - 1) * time_step + exposure>>

C8_Witness ==
    /\ spc = "returned"
    /\ Len(slices) >= 4
    /\ time_step # exposure

\* C9: for exposure < end - start every returned window (s, e) has s < e.
C9_WindowsOrdered ==
    (spc = "returned" /\ ValidWindow) =>
        \A i \in 1..Len(slices) : slices[i][1] < slices[i][2]

\* =====================================================================
\* Properties of SunpyMovieMaker (checked under MovieSpec)
\* =====================================================================

\* number of maps the caller gave the first series
N1 == Len(input[1].maps)

\* every series was given the same number of maps
AllEqual == \A j \in 1..Len(input) : Len(input[j].maps) = N1

\* C2: the first make_movie call on series of unequal lengths never
\* completes; it ends in an error.
C2_MismatchRaises ==
    (calls = 1 /\ mpc \in {"done", "raised"} /\ ~ AllEqual) => mpc = "raised"

C6_FalsyCallbackIsNoOp ==
    err # "TypeError"

\* C7: the caller's MapSet objects stay exactly as the caller built them.
C7_OriginalsUntouched ==
    \A j \in 1..Len(caller) : heap[caller[j]] = input[j]

C7_Witness ==
    /\ calls >= 2
    /\ mpc = "done"
    /\ Len(map_sets) = 2
    /\ \A j \in 1..Len(map_sets) :
          Len(heap[map_sets[j]].maps) = Len(input[j].maps) - 2

RECURSIVE ExpectedInit(_)
ExpectedInit(j) ==
    IF j > Len(input) THEN <<>>
    ELSE <<Event("plot", 0, j, <<j, 0>>)>>
         \o (IF Truthy(input[j].init_func)
             THEN <<Event("init_func", 0, j, <<j, 0>>)>> ELSE <<>>)
         \o ExpectedInit(j + 1)

RECURSIVE ExpectedEntry(_, _)
ExpectedEntry(i, j) ==
    IF j > Len(input) THEN <<>>
    ELSE <<Event("set_array", i, j, <<j, i>>)>>
         \o (IF Truthy(input[j].plot_func)
             THEN <<Event("plot_func", i, j, <<j, i>>)>> ELSE <<>>)
         \o ExpectedEntry(i, j + 1)

RECURSIVE ExpectedUpdates(_)
ExpectedUpdates(i) ==
    IF i > N1 - 1 THEN <<>>
    ELSE ExpectedEntry(i, 1) \o ExpectedUpdates(i + 1)

ExpectedTrace == ExpectedInit(1) \o ExpectedUpdates(1)

IsPrefix(s, t) ==
    /\ Len(s) <= Len(t)
    /\ \A i \in 1..Len(s) : s[i] = t[i]

\* C10: in the first call on series of equal length n >= 1 the calls on the
\* collaborators are, in order: plot (and init callback) of map 0 of each
\* series, then for i = 1..n-1 in turn, for each series j, set_array and
\* update callback with series j's map i; the schedule has n - 1 entries,
\* and between update steps every artist j shows series j's map of the
\* same index.
C10_Lockstep ==
    (calls = 1 /\ AllEqual /\ N1 >= 1) =>
        /\ IsPrefix(trace, ExpectedTrace)
        /\ (mpc = "done" => trace = ExpectedTrace)
        /\ (mpc \in {"animate", "done"} =>
              /\ Len(frames) = N1 - 1
              /\ \A j \in 1..Len(ims) : ims[j] = <<j, idx - 1>>)

C10_Witness ==
    /\ calls = 1
    /\ mpc = "done"
    /\ AllEqual
    /\ N1 = 4
    /\ Len(input) = 2
    /\ \A j \in 1..2 : Truthy(input[j].init_func) /\ Truthy(input[j].plot_func)
    /\ Len(trace) = 16

====
